---- MODULE Spec2Model ----
(***************************************************************************)
(* Task lifecycle, access control and activity log of taskmaster-backend   *)
(* (tasks/models.py, serializers.py, permissions.py, signals.py, views.py) *)
(* as a state machine over the persisted store.                            *)
(*                                                                         *)
(* Spec      : one action per API request, the whole handler in one step.  *)
(* SpecComments : Spec together with the comment handlers.                 *)
(* SpecSteps : the task mutations split at their database writes (the      *)
(*             views open no transaction around save() and                 *)
(*             Activity.objects.create()).                                 *)
(* SpecProjects : the task and membership requests over two projects.      *)
(* SpecRace  : two workers interleaving the steps of change_status,        *)
(*             assign and unassign on one task.                            *)
(***************************************************************************)
EXTENDS Integers, Sequences, FiniteSets, TLC

\* ------------------------------------------------------------------ bounds
NumUsers == 2
MaxProjects == 1
MaxTasks == 1
MaxLog == 4
MaxInflight == 1
MaxComments == 1
MaxProjectsWide == 2
MaxLogWide == 5
MaxRacers == 2

\* --------------------------------------------------------------- constants
Users == 1..NumUsers
\* assigned_to = None (null=True), also an absent / null assigned_to_id
NoUser == 0
\* an id no User row has
GhostUser == NumUsers + 1
\* an absent project_id in a request body
NoProject == 0
\* an absent status / priority in a request body
Absent == ""

Slots == 1..MaxInflight
ProjectIds == 1..MaxProjects
TaskIds == 1..MaxTasks

STATUS_CHOICES == {"TODO", "IN_PROGESS", "IN_REVIEW", "DONE"}
PRIORITY_CHOICES == {"LOW", "MEDIUM", "HIGH", "URGENT"}
DefaultStatus == "TODO"
DefaultPriority == "MEDIUM"

\* the status strings a client may send (the documented enum of change_status
\* plus the spelling STATUS_CHOICES holds)
StatusInputs == {"TODO", "IN_PROGRESS", "IN_PROGESS", "IN_REVIEW", "DONE"}
\* the priority a task update body may carry
PriorityInputs == {"HIGH"}
UserIdInputs == Users \cup {GhostUser}
CommentIds == 1..MaxComments
ProjectIdsWide == 1..MaxProjectsWide
Racers == 1..MaxRacers
\* comment texts after strip(); Absent is a text that is empty after strip()
TextInputs == {"a", "b", Absent}

VARIABLES
    projects,      \* live Project rows: id -> [created_by, team_members]
    tasks,         \* live Task rows: id -> [project, created_by, assigned_to, status, priority]
    activities,    \* Activity rows in insertion order
    nextProjectId, \* auto-increment primary keys
    nextTaskId,
    last,          \* the response in flight: [op, actor, id, outcome], or Idle
    inflight,      \* SpecSteps: the task mutations between their database writes
    comments,      \* live Comment rows: id -> [task, user, text]
    nextCommentId

vars == <<projects, tasks, activities, nextProjectId, nextTaskId, last, inflight,
          comments, nextCommentId>>

\* ------------------------------------------------------------------ helpers
Min(S) == CHOOSE x \in S : \A y \in S : x <= y

RECURSIVE Ascending(_)
\* iteration over a pk_set of small integers
Ascending(S) == IF S = {} THEN <<>> ELSE <<Min(S)>> \o Ascending(S \ {Min(S)})

Entry(p, u, a, t, w, o, n) ==
    [project |-> p, user |-> u, action |-> a, task |-> t, who |-> w, old |-> o, new |-> n]

RECURSIVE MemberEntries(_, _, _, _)
MemberEntries(pid, creator, action, ids) ==
    IF ids = <<>> THEN <<>>
    ELSE <<Entry(pid, creator, action, 0, Head(ids), "", "")>>
         \o MemberEntries(pid, creator, action, Tail(ids))

Resp(op, actor, id, outcome) == [op |-> op, actor |-> actor, id |-> id, outcome |-> outcome]

\* no response in flight: the server waits for the next request
Idle == Resp("idle", NoUser, 0, "OK")

NoTask == [project |-> NoProject, created_by |-> NoUser, assigned_to |-> NoUser,
           status |-> Absent, priority |-> Absent]

\* a request between its writes: the instance get_object() read, as changed in
\* memory; the values to log; what is left to do
Request(op, actor, id, pc, instance, old, pending) ==
    [op |-> op, actor |-> actor, id |-> id, pc |-> pc, instance |-> instance,
     old |-> old, pending |-> pending]

NoRequest == Request("none", NoUser, 0, "done", NoTask, NoTask, <<>>)

\* ------------------------------------------------------------- signals.py
\* m2m_changed receiver: post_add logs every added pk except the creator's
log_team_member_added(pid, creator, pk_set) ==
    MemberEntries(pid, creator, "added team member", Ascending(pk_set \ {creator}))

\* m2m_changed receiver: post_remove logs every pk handed to remove()
log_team_member_removed(pid, creator, pk_set) ==
    MemberEntries(pid, creator, "removed team member", Ascending(pk_set))

log_project_creation(pid, creator) ==
    <<Entry(pid, creator, "created project", 0, NoUser, "", "")>>

log_task_activity(t, id) ==
    <<Entry(t.project, t.created_by, "created task", id, NoUser, "", "")>>

\* post_save receiver of Comment
log_comment(pid, tid, user) == <<Entry(pid, user, "added comment", tid, NoUser, "", "")>>

log_task_deletion_Silent(t, id) == <<>>

log_task_deletion(t, id) ==
    <<Entry(t.project, t.created_by, "deleted task", id, NoUser, "", "")>>

\* ---------------------------------------------------- team_members (m2m)
TeamAdd_LogAll(P, log, pid, ids) ==
    [projects |-> [P EXCEPT ![pid].team_members = @ \cup ids],
     activities |-> log \o log_team_member_added(pid, P[pid].created_by, ids)]

\* team_members.add(*users): rows for the missing ids, post_add with them
TeamAdd(P, log, pid, ids) ==
    LET p == P[pid]
        missing == ids \ p.team_members
    IN [projects |-> [P EXCEPT ![pid].team_members = @ \cup ids],
        activities |-> log \o log_team_member_added(pid, p.created_by, missing)]

\* team_members.remove(*users): post_remove with every id passed
TeamRemove(P, log, pid, ids) ==
    LET p == P[pid]
    IN [projects |-> [P EXCEPT ![pid].team_members = @ \ ids],
        activities |-> log \o log_team_member_removed(pid, p.created_by, ids)]

\* team_members.set(users): remove the members not listed, add the listed
\* non-members
TeamSet(P, log, pid, ids) ==
    LET p == P[pid]
        old_ids == p.team_members \ ids
        new_ids == ids \ p.team_members
        r == IF old_ids = {} THEN [projects |-> P, activities |-> log]
             ELSE TeamRemove(P, log, pid, old_ids)
    IN IF new_ids = {} THEN r ELSE TeamAdd(r.projects, r.activities, pid, new_ids)

EnsureCreator_Skipped(P, log, pid) == [projects |-> P, activities |-> log]

\* ProjectCreateUpdateSerializer.update: "ensure creator is always created"
EnsureCreator(P, log, pid) == TeamAdd(P, log, pid, {P[pid].created_by})

RemovesCreator_Never(pid, user_id) == FALSE

\* remove_member: int(user_id) == project.created_by.id
RemovesCreator(pid, user_id) == user_id = projects[pid].created_by

\* ---------------------------------------------------------- permissions.py
InQuerysetProject(u, pid) == pid \in DOMAIN projects /\ u \in projects[pid].team_members

IsProjectMember(u, pid, safe) == safe /\ u \in projects[pid].team_members

IsProjectCreator_Member(u, pid, safe) == u \in projects[pid].team_members

IsProjectCreator(u, pid, safe) ==
    IF safe THEN u \in projects[pid].team_members
    ELSE projects[pid].created_by = u

InQuerysetTask(u, tid) ==
    tid \in DOMAIN tasks /\ u \in projects[tasks[tid].project].team_members

IsTaskProjectMember(u, tid) == u \in projects[tasks[tid].project].team_members

CanModifyTask(u, tid, safe) ==
    IF safe THEN u \in projects[tasks[tid].project].team_members
    ELSE \/ u = tasks[tid].created_by
         \/ u = tasks[tid].assigned_to
         \/ u = projects[tasks[tid].project].created_by

\* CommentViewSet.get_queryset
InQuerysetComment(u, cid) ==
    /\ cid \in DOMAIN comments
    /\ u \in projects[tasks[comments[cid].task].project].team_members

IsCommentOwner_Member(u, cid) == TRUE

IsCommentOwner(u, cid) == comments[cid].user = u

\* --------------------------------------------------------------------- Init
Init ==
    /\ projects = <<>>
    /\ tasks = <<>>
    /\ activities = <<>>
    /\ nextProjectId = 1
    /\ nextTaskId = 1
    /\ last = Idle
    /\ inflight = [k \in Slots |-> NoRequest]
    /\ comments = <<>>
    /\ nextCommentId = 1

\* a response that leaves the store as it is
Reply(op, actor, id, outcome) ==
    /\ last' = Resp(op, actor, id, outcome)
    /\ UNCHANGED <<projects, tasks, activities, nextProjectId, nextTaskId,
                   comments, nextCommentId>>

\* ----------------------------------------------------------- ProjectViewSet
\* POST /projects/ : ProjectCreateUpdateSerializer.create, Project.save,
\* add_creator_to_team, log_project_creation
CreateProject(actor, ids) ==
    LET pid == nextProjectId
        P0 == [i \in DOMAIN projects \cup {pid} |->
                 IF i = pid THEN [created_by |-> actor, team_members |-> {}]
                 ELSE projects[i]]
        \* post_save receivers in registration order
        s1 == TeamAdd(P0, activities, pid, {actor})
        s2 == [projects |-> s1.projects,
               activities |-> s1.activities \o log_project_creation(pid, actor)]
        \* Project.save: is_new
        s3 == TeamAdd(s2.projects, s2.activities, pid, {actor})
        \* if team_member_ids: add(*User.objects.filter(id__in = team_member_ids))
        s4 == IF ids # {} THEN TeamAdd(s3.projects, s3.activities, pid, ids \cap Users)
              ELSE s3
    IN /\ projects' = s4.projects
       /\ activities' = s4.activities
       /\ nextProjectId' = nextProjectId + 1
       /\ last' = Resp("create_project", actor, pid, "OK")
       /\ UNCHANGED <<tasks, nextTaskId, comments, nextCommentId>>

\* get_object() then check_object_permissions() of a creator action
ProjectWriteGate(actor, pid) ==
    IF ~InQuerysetProject(actor, pid) THEN "NotFound"
    ELSE IF ~IsProjectCreator(actor, pid, FALSE) THEN "Forbidden"
    ELSE "OK"

\* PUT/PATCH /projects/{id}/ : ProjectCreateUpdateSerializer.update.
\* hasIds = FALSE is a body without team_member_ids.
UpdateProject(actor, pid, hasIds, ids) ==
    LET gate == ProjectWriteGate(actor, pid)
        s1 == TeamSet(projects, activities, pid, ids \cap Users)
        s2 == EnsureCreator(s1.projects, s1.activities, pid)
    IN IF gate # "OK" THEN Reply("update_project", actor, pid, gate)
       ELSE IF ~hasIds THEN Reply("update_project", actor, pid, "OK")
       ELSE /\ projects' = s2.projects
            /\ activities' = s2.activities
            /\ last' = Resp("update_project", actor, pid, "OK")
            /\ UNCHANGED <<tasks, nextProjectId, nextTaskId, comments, nextCommentId>>

\* POST /projects/{id}/add_member/
add_member(actor, pid, user_id) ==
    LET gate == ProjectWriteGate(actor, pid)
        s == TeamAdd(projects, activities, pid, {user_id})
    IN IF gate # "OK" THEN Reply("add_member", actor, pid, gate)
       ELSE IF projects[pid].created_by # actor
            THEN Reply("add_member", actor, pid, "Forbidden")
       ELSE IF user_id \notin Users THEN Reply("add_member", actor, pid, "NotFound")
       ELSE /\ projects' = s.projects
            /\ activities' = s.activities
            /\ last' = Resp("add_member", actor, pid, "OK")
            /\ UNCHANGED <<tasks, nextProjectId, nextTaskId, comments, nextCommentId>>

\* POST /projects/{id}/remove_member/
remove_member(actor, pid, user_id) ==
    LET gate == ProjectWriteGate(actor, pid)
        s == TeamRemove(projects, activities, pid, {user_id})
    IN IF gate # "OK" THEN Reply("remove_member", actor, pid, gate)
       ELSE IF projects[pid].created_by # actor
            THEN Reply("remove_member", actor, pid, "Forbidden")
       ELSE IF RemovesCreator(pid, user_id)
            THEN Reply("remove_member", actor, pid, "InvalidOperation")
       ELSE IF user_id \notin Users THEN Reply("remove_member", actor, pid, "NotFound")
       ELSE /\ projects' = s.projects
            /\ activities' = s.activities
            /\ last' = Resp("remove_member", actor, pid, "OK")
            /\ UNCHANGED <<tasks, nextProjectId, nextTaskId, comments, nextCommentId>>

\* DELETE /projects/{id}/ : the cascade deletes the project's tasks (pre_delete
\* logs each into the project's log), their comments, and then every Activity
\* of the project
DestroyProject(actor, pid) ==
    LET gate == ProjectWriteGate(actor, pid)
    IN IF gate # "OK" THEN Reply("destroy_project", actor, pid, gate)
       ELSE /\ projects' = [i \in DOMAIN projects \ {pid} |-> projects[i]]
            /\ tasks' = [t \in {t \in DOMAIN tasks : tasks[t].project # pid} |-> tasks[t]]
            /\ comments' = [c \in {c \in DOMAIN comments :
                                      tasks[comments[c].task].project # pid} |-> comments[c]]
            /\ activities' = SelectSeq(activities, LAMBDA e : e.project # pid)
            /\ last' = Resp("destroy_project", actor, pid, "OK")
            /\ UNCHANGED <<nextProjectId, nextTaskId, nextCommentId>>

\* GET /projects/{id}/
RetrieveProject(actor, pid) ==
    IF ~InQuerysetProject(actor, pid) THEN Reply("retrieve_project", actor, pid, "NotFound")
    ELSE IF ~IsProjectMember(actor, pid, TRUE)
         THEN Reply("retrieve_project", actor, pid, "Forbidden")
    ELSE Reply("retrieve_project", actor, pid, "OK")

\* -------------------------------------------------------------- serializers.py
\* TaskStatusSerializer.validate_status: allowed_transition.get(current, [])
allowed_transition(current) ==
    CASE current = "TODO" -> {"IN_PROGRESS"}
      [] current = "IN_PROGRESS" -> {"IN_REVIEW", "TODO"}
      [] current = "IN_REVIEW" -> {"DONE", "IN_PROGRESS"}
      [] current = "DONE" -> {"IN_PROGRESS"}
      [] OTHER -> {}

\* TaskStatusSerializer.status = ChoiceField(choices = Task.STATUS_CHOICES)
ValidStatusChoice(value) == value \in STATUS_CHOICES

\* TaskCreateUpdateSerializer.validate_project_id
validate_project_id_Exists(actor, project_id) == project_id \in DOMAIN projects

validate_project_id(actor, project_id) ==
    project_id \in DOMAIN projects /\ actor \in projects[project_id].team_members

\* TaskCreateUpdateSerializer.validate_assigned_to_id
validate_assigned_to_id(value) == value = NoUser \/ value \in Users

\* the field validators of TaskCreateUpdateSerializer on the fields present
TaskFieldsValid(actor, project_id, assigned_to_id, status, priority) ==
    /\ project_id # NoProject => validate_project_id(actor, project_id)
    /\ validate_assigned_to_id(assigned_to_id)
    /\ status # Absent => ValidStatusChoice(status)
    /\ priority # Absent => priority \in PRIORITY_CHOICES

\* TaskCreateUpdateSerializer.validate: "OK", "ValidationError", or
\* "ServerError" when Project.objects.get(id = None) raises DoesNotExist
validate(project_id, assigned_to_id) ==
    IF assigned_to_id = NoUser THEN "OK"
    ELSE IF project_id = NoProject THEN "ServerError"
    ELSE IF assigned_to_id \notin projects[project_id].team_members THEN "ValidationError"
    ELSE "OK"

\* TaskAssignSerializer.validate_user_id
validate_user_id(tid, value) ==
    value \in Users /\ value \in projects[tasks[tid].project].team_members

\* ----------------------------------------------------------------- TaskViewSet
\* get_object() then check_object_permissions(); modify = update / destroy
TaskGate(actor, tid, modify) ==
    IF ~InQuerysetTask(actor, tid) THEN "NotFound"
    ELSE IF modify /\ ~CanModifyTask(actor, tid, FALSE) THEN "Forbidden"
    ELSE IF ~modify /\ ~IsTaskProjectMember(actor, tid) THEN "Forbidden"
    ELSE "OK"

log_task_changes_AssignedAlways(old, new, tid, user) ==
    (IF old.status # new.status
     THEN <<Entry(new.project, user, "changed task status", tid, NoUser,
                  old.status, new.status)>>
     ELSE <<>>)
    \o (IF new.assigned_to # NoUser
        THEN <<Entry(new.project, user, "assigned task", tid, new.assigned_to, "", "")>>
        ELSE <<>>)
    \o (IF old.priority # new.priority
        THEN <<Entry(new.project, user, "changed task priority", tid, NoUser,
                     old.priority, new.priority)>>
        ELSE <<>>)

\* TaskViewSet._log_task_changes
log_task_changes(old, new, tid, user) ==
    (IF old.status # new.status
     THEN <<Entry(new.project, user, "changed task status", tid, NoUser,
                  old.status, new.status)>>
     ELSE <<>>)
    \o (IF old.assigned_to # new.assigned_to
        THEN IF new.assigned_to # NoUser
             THEN <<Entry(new.project, user, "assigned task", tid, new.assigned_to, "", "")>>
             ELSE IF old.assigned_to # NoUser
                  THEN <<Entry(new.project, user, "unassigned task", tid, NoUser, "", "")>>
                  ELSE <<>>
        ELSE <<>>)
    \o (IF old.priority # new.priority
        THEN <<Entry(new.project, user, "changed task priority", tid, NoUser,
                     old.priority, new.priority)>>
        ELSE <<>>)

\* TaskCreateUpdateSerializer.update: the fields of the saved instance
UpdatedTask(old, project_id, assigned_to_id, status, priority) ==
    [project |-> IF project_id # NoProject THEN project_id ELSE old.project,
     created_by |-> old.created_by,
     assigned_to |-> IF assigned_to_id # NoUser THEN assigned_to_id ELSE old.assigned_to,
     status |-> IF status # Absent THEN status ELSE old.status,
     priority |-> IF priority # Absent THEN priority ELSE old.priority]

\* POST /tasks/ : TaskCreateUpdateSerializer.create, log_task_activity
CreateTask(actor, project_id, assigned_to_id, status, priority) ==
    LET tid == nextTaskId
        v == validate(project_id, assigned_to_id)
        t == [project |-> project_id,
              created_by |-> actor,
              assigned_to |-> assigned_to_id,
              status |-> IF status # Absent THEN status ELSE DefaultStatus,
              priority |-> IF priority # Absent THEN priority ELSE DefaultPriority]
        log == activities \o log_task_activity(t, tid)
    IN IF \/ project_id = NoProject
          \/ ~TaskFieldsValid(actor, project_id, assigned_to_id, status, priority)
       THEN Reply("create_task", actor, tid, "ValidationError")
       ELSE IF v # "OK" THEN Reply("create_task", actor, tid, v)
       ELSE /\ tasks' = [i \in DOMAIN tasks \cup {tid} |->
                           IF i = tid THEN t ELSE tasks[i]]
            /\ activities' = log
            /\ nextTaskId' = nextTaskId + 1
            /\ last' = Resp("create_task", actor, tid, "OK")
            /\ UNCHANGED <<projects, nextProjectId, comments, nextCommentId>>

\* PUT/PATCH /tasks/{id}/ : perform_update. An absent project_id is a PATCH
\* (PUT requires the field); every other body is either method.
UpdateTask(actor, tid, project_id, assigned_to_id, status, priority) ==
    LET gate == TaskGate(actor, tid, TRUE)
        v == validate(project_id, assigned_to_id)
        old_instance == tasks[tid]
        new_instance == UpdatedTask(old_instance, project_id, assigned_to_id, status, priority)
        log == activities \o log_task_changes(old_instance, new_instance, tid, actor)
    IN IF gate # "OK" THEN Reply("update_task", actor, tid, gate)
       ELSE IF ~TaskFieldsValid(actor, project_id, assigned_to_id, status, priority)
            THEN Reply("update_task", actor, tid, "ValidationError")
       ELSE IF v # "OK" THEN Reply("update_task", actor, tid, v)
       ELSE /\ tasks' = [tasks EXCEPT ![tid] = new_instance]
            /\ activities' = log
            /\ last' = Resp("update_task", actor, tid, "OK")
            /\ UNCHANGED <<projects, nextProjectId, nextTaskId,
                           comments, nextCommentId>>

DestroyTask_KeepComments(actor, tid) ==
    LET gate == TaskGate(actor, tid, TRUE)
    IN IF gate # "OK" THEN Reply("destroy_task", actor, tid, gate)
       ELSE /\ tasks' = [i \in DOMAIN tasks \ {tid} |-> tasks[i]]
            /\ activities' = activities \o log_task_deletion(tasks[tid], tid)
            /\ last' = Resp("destroy_task", actor, tid, "OK")
            /\ UNCHANGED <<projects, nextProjectId, nextTaskId, comments, nextCommentId>>

\* DELETE /tasks/{id}/ : log_task_deletion (pre_delete), then the row and,
\* by cascade, its comments go
DestroyTask(actor, tid) ==
    LET gate == TaskGate(actor, tid, TRUE)
        log == activities \o log_task_deletion(tasks[tid], tid)
    IN IF gate # "OK" THEN Reply("destroy_task", actor, tid, gate)
       ELSE /\ tasks' = [i \in DOMAIN tasks \ {tid} |-> tasks[i]]
            /\ comments' = [c \in {c \in DOMAIN comments : comments[c].task # tid}
                               |-> comments[c]]
            /\ activities' = log
            /\ last' = Resp("destroy_task", actor, tid, "OK")
            /\ UNCHANGED <<projects, nextProjectId, nextTaskId, nextCommentId>>

change_status_SaveFirst(actor, tid, status) ==
    LET gate == TaskGate(actor, tid, FALSE)
    IN IF gate # "OK" THEN Reply("change_status", actor, tid, gate)
       ELSE IF ~ValidStatusChoice(status)
            THEN Reply("change_status", actor, tid, "ValidationError")
       ELSE /\ tasks' = [tasks EXCEPT ![tid].status = status]
            /\ last' = Resp("change_status", actor, tid,
                            IF status \in allowed_transition(tasks[tid].status)
                            THEN "OK" ELSE "InvalidTransition")
            /\ activities' = Append(activities,
                                    Entry(tasks[tid].project, actor, "changed task status",
                                          tid, NoUser, tasks[tid].status, status))
            /\ UNCHANGED <<projects, nextProjectId, nextTaskId, comments, nextCommentId>>

\* POST /tasks/{id}/change_status/
change_status(actor, tid, status) ==
    LET gate == TaskGate(actor, tid, FALSE)
        old_status == tasks[tid].status
        log == Append(activities,
                      Entry(tasks[tid].project, actor, "changed task status", tid, NoUser,
                            old_status, status))
    IN IF gate # "OK" THEN Reply("change_status", actor, tid, gate)
       ELSE IF ~ValidStatusChoice(status)
            THEN Reply("change_status", actor, tid, "ValidationError")
       ELSE IF status \notin allowed_transition(old_status)
            THEN Reply("change_status", actor, tid, "InvalidTransition")
       ELSE /\ tasks' = [tasks EXCEPT ![tid].status = status]
            /\ activities' = log
            /\ last' = Resp("change_status", actor, tid, "OK")
            /\ UNCHANGED <<projects, nextProjectId, nextTaskId,
                           comments, nextCommentId>>

\* POST /tasks/{id}/assign/
assign(actor, tid, user_id) ==
    LET gate == TaskGate(actor, tid, FALSE)
        log == Append(activities,
                      Entry(tasks[tid].project, actor, "assigned task", tid, user_id, "", ""))
    IN IF gate # "OK" THEN Reply("assign", actor, tid, gate)
       ELSE IF ~validate_user_id(tid, user_id)
            THEN Reply("assign", actor, tid, "ValidationError")
       ELSE /\ tasks' = [tasks EXCEPT ![tid].assigned_to = user_id]
            /\ activities' = log
            /\ last' = Resp("assign", actor, tid, "OK")
            /\ UNCHANGED <<projects, nextProjectId, nextTaskId,
                           comments, nextCommentId>>

\* POST /tasks/{id}/unassign/
unassign(actor, tid) ==
    LET gate == TaskGate(actor, tid, FALSE)
        log == Append(activities,
                      Entry(tasks[tid].project, actor, "unassigned task", tid,
                            tasks[tid].assigned_to, "", ""))
    IN IF gate # "OK" THEN Reply("unassign", actor, tid, gate)
       ELSE /\ tasks' = [tasks EXCEPT ![tid].assigned_to = NoUser]
            /\ activities' = log
            /\ last' = Resp("unassign", actor, tid, "OK")
            /\ UNCHANGED <<projects, nextProjectId, nextTaskId,
                           comments, nextCommentId>>

\* ------------------------------------------------------------------ comments
\* CommentSerializer / CommentCreateSerializer.validate_text
validate_text(value) == value # Absent

\* CommentCreateSerializer.validate_task
validate_task(actor, tid) ==
    tid \in DOMAIN tasks /\ actor \in projects[tasks[tid].project].team_members

\* serializer.save(user = request.user), log_comment
SaveComment(op, actor, tid, text) ==
    LET cid == nextCommentId
    IN /\ comments' = [i \in DOMAIN comments \cup {cid} |->
                          IF i = cid THEN [task |-> tid, user |-> actor, text |-> text]
                          ELSE comments[i]]
       /\ nextCommentId' = nextCommentId + 1
       /\ activities' = activities \o log_comment(tasks[tid].project, tid, actor)
       /\ last' = Resp(op, actor, cid, "OK")
       /\ UNCHANGED <<projects, tasks, nextProjectId, nextTaskId>>

\* POST /tasks/{id}/comments/ : TaskViewSet.comments
add_comment(actor, tid, text) ==
    LET gate == TaskGate(actor, tid, FALSE)
    IN IF gate # "OK" THEN Reply("add_comment", actor, tid, gate)
       ELSE IF ~validate_text(text) \/ ~validate_task(actor, tid)
            THEN Reply("add_comment", actor, tid, "ValidationError")
       ELSE SaveComment("add_comment", actor, tid, text)

\* get_object() then check_object_permissions() of CommentViewSet
CommentGate(actor, cid, write) ==
    IF ~InQuerysetComment(actor, cid) THEN "NotFound"
    ELSE IF write /\ ~IsCommentOwner(actor, cid) THEN "Forbidden"
    ELSE "OK"

\* CommentViewSet.create
CreateComment(actor, tid, text) ==
    IF ~validate_text(text) \/ ~validate_task(actor, tid)
    THEN Reply("create_comment", actor, tid, "ValidationError")
    ELSE SaveComment("create_comment", actor, tid, text)

\* CommentViewSet update / partial_update with CommentSerializer: user and
\* task are read-only, the text is written
UpdateComment(actor, cid, text) ==
    LET gate == CommentGate(actor, cid, TRUE)
    IN IF gate # "OK" THEN Reply("update_comment", actor, cid, gate)
       ELSE IF ~validate_text(text) THEN Reply("update_comment", actor, cid, "ValidationError")
       ELSE /\ comments' = [comments EXCEPT ![cid].text = text]
            /\ last' = Resp("update_comment", actor, cid, "OK")
            /\ UNCHANGED <<projects, tasks, activities, nextProjectId, nextTaskId,
                           nextCommentId>>

\* CommentViewSet.destroy
DestroyComment(actor, cid) ==
    LET gate == CommentGate(actor, cid, TRUE)
    IN IF gate # "OK" THEN Reply("destroy_comment", actor, cid, gate)
       ELSE /\ comments' = [i \in DOMAIN comments \ {cid} |-> comments[i]]
            /\ last' = Resp("destroy_comment", actor, cid, "OK")
            /\ UNCHANGED <<projects, tasks, activities, nextProjectId, nextTaskId,
                           nextCommentId>>

\* CommentViewSet.retrieve
RetrieveComment(actor, cid) ==
    Reply("retrieve_comment", actor, cid, CommentGate(actor, cid, FALSE))

\* ---------------------------------------------------------------- reads
\* The querysets and read views over a store (P projects, T tasks,
\* C comments, A activities) for user u.
\* ProjectViewSet.get_queryset
ProjectQueryset(P, u) == {p \in DOMAIN P : u \in P[p].team_members}

TaskQueryset_All(P, T, u) == DOMAIN T

\* TaskViewSet.get_queryset
TaskQueryset(P, T, u) == {t \in DOMAIN T : u \in P[T[t].project].team_members}

\* CommentViewSet.get_queryset
CommentQueryset(P, T, C, u) ==
    {c \in DOMAIN C : u \in P[T[C[c].task].project].team_members}

\* what user u gets from the read views: project list / detail with the
\* project's tasks and activities actions, task list / detail, my_tasks,
\* overdue (by status; due dates are not modelled), comments
Reads(P, T, C, A, u) ==
    [projects |-> [p \in ProjectQueryset(P, u) |->
                     [row |-> P[p],
                      tasks |-> {<<t, T[t]>> : t \in {x \in DOMAIN T : T[x].project = p}},
                      activities |-> SelectSeq(A, LAMBDA e : e.project = p)]],
     tasks |-> [t \in TaskQueryset(P, T, u) |-> T[t]],
     my_tasks |-> {t \in TaskQueryset(P, T, u) : T[t].assigned_to = u},
     overdue |-> {t \in TaskQueryset(P, T, u) :
                    T[t].status \in {"TODO", "IN_PROGRESS", "IN_REVIEW"}},
     comments |-> [c \in CommentQueryset(P, T, C, u) |-> C[c]]]

\* the client takes the response; the next request may start
Respond ==
    /\ last # Idle
    /\ last' = Idle
    /\ UNCHANGED <<projects, tasks, activities, nextProjectId, nextTaskId, inflight,
                   comments, nextCommentId>>

\* the store stays within the bounds of the model
InBounds ==
    /\ Len(activities) <= MaxLog
    /\ nextProjectId <= MaxProjects + 1
    /\ nextTaskId <= MaxTasks + 1
    /\ nextCommentId <= MaxComments + 1

\* one request, start to response, while no response is in flight
ReqCreateProject ==
    \E a \in Users, ids \in SUBSET UserIdInputs :
        last = Idle /\ CreateProject(a, ids) /\ InBounds'
        /\ UNCHANGED inflight

ReqUpdateProject ==
    \E a \in Users, p \in ProjectIds :
        /\ last = Idle
        /\ \/ UpdateProject(a, p, FALSE, {})
           \/ \E ids \in SUBSET UserIdInputs : UpdateProject(a, p, TRUE, ids)
        /\ InBounds'
        /\ UNCHANGED inflight

ReqAddMember ==
    \E a \in Users, p \in ProjectIds, u \in UserIdInputs :
        last = Idle /\ add_member(a, p, u) /\ InBounds'
        /\ UNCHANGED inflight

ReqRemoveMember ==
    \E a \in Users, p \in ProjectIds, u \in UserIdInputs :
        last = Idle /\ remove_member(a, p, u) /\ InBounds'
        /\ UNCHANGED inflight

ReqDestroyProject ==
    \E a \in Users, p \in ProjectIds : last = Idle /\ DestroyProject(a, p) /\ UNCHANGED inflight

ReqRetrieveProject ==
    \E a \in Users, p \in ProjectIds : last = Idle /\ RetrieveProject(a, p) /\ UNCHANGED inflight

ReqCreateTask ==
    \E a \in Users, p \in ProjectIds \cup {NoProject}, u \in UserIdInputs \cup {NoUser},
       s \in StatusInputs \cup {Absent} :
        last = Idle /\ CreateTask(a, p, u, s, Absent) /\ InBounds'
        /\ UNCHANGED inflight

ReqUpdateTask ==
    \E a \in Users, t \in TaskIds, p \in ProjectIds \cup {NoProject},
       u \in UserIdInputs \cup {NoUser}, s \in StatusInputs \cup {Absent},
       pr \in PriorityInputs \cup {Absent} :
        last = Idle /\ UpdateTask(a, t, p, u, s, pr) /\ InBounds'
        /\ UNCHANGED inflight

ReqDestroyTask ==
    \E a \in Users, t \in TaskIds : last = Idle /\ DestroyTask(a, t) /\ InBounds'
        /\ UNCHANGED inflight

ReqChangeStatus ==
    \E a \in Users, t \in TaskIds, s \in StatusInputs :
        last = Idle /\ change_status(a, t, s) /\ InBounds'
        /\ UNCHANGED inflight

ReqAssign ==
    \E a \in Users, t \in TaskIds, u \in UserIdInputs :
        last = Idle /\ assign(a, t, u) /\ InBounds'
        /\ UNCHANGED inflight

ReqUnassign ==
    \E a \in Users, t \in TaskIds : last = Idle /\ unassign(a, t) /\ InBounds'
        /\ UNCHANGED inflight

Next ==
    \/ Respond
    \/ ReqCreateProject
    \/ ReqUpdateProject
    \/ ReqAddMember
    \/ ReqRemoveMember
    \/ ReqDestroyProject
    \/ ReqRetrieveProject
    \/ ReqCreateTask
    \/ ReqUpdateTask
    \/ ReqDestroyTask
    \/ ReqChangeStatus
    \/ ReqAssign
    \/ ReqUnassign

Spec == Init /\ [][Next]_vars

\* ------------------------------------------------------------- SpecComments
\* The API together with the comment handlers. TaskViewSet.comments is routed
\* (urls.py registers TaskViewSet); CommentViewSet is defined in views.py and
\* registered by no router of urls.py, and its handlers are taken here as
\* views.py defines them.
ReqAddComment ==
    \E a \in Users, t \in TaskIds, x \in TextInputs :
        last = Idle /\ add_comment(a, t, x) /\ InBounds' /\ UNCHANGED inflight

ReqCreateComment ==
    \E a \in Users, t \in TaskIds, x \in TextInputs :
        last = Idle /\ CreateComment(a, t, x) /\ InBounds' /\ UNCHANGED inflight

ReqUpdateComment ==
    \E a \in Users, c \in CommentIds, x \in TextInputs :
        last = Idle /\ UpdateComment(a, c, x) /\ UNCHANGED inflight

ReqDestroyComment ==
    \E a \in Users, c \in CommentIds :
        last = Idle /\ DestroyComment(a, c) /\ UNCHANGED inflight

ReqRetrieveComment ==
    \E a \in Users, c \in CommentIds :
        last = Idle /\ RetrieveComment(a, c) /\ UNCHANGED inflight

NextComments ==
    \/ Next
    \/ ReqAddComment
    \/ ReqCreateComment
    \/ ReqUpdateComment
    \/ ReqDestroyComment
    \/ ReqRetrieveComment

SpecComments == Init /\ [][NextComments]_vars

\* ------------------------------------------------------------- SpecProjects
\* The API over two projects: tasks are created in, moved between and
\* assigned within them.
InBoundsWide ==
    /\ Len(activities) <= MaxLogWide
    /\ nextProjectId <= MaxProjectsWide + 1
    /\ nextTaskId <= MaxTasks + 1
    /\ nextCommentId <= MaxComments + 1

WideCreateProject ==
    \E a \in Users, ids \in {{}, Users} :
        last = Idle /\ CreateProject(a, ids) /\ InBoundsWide' /\ UNCHANGED inflight

WideRemoveMember ==
    \E a \in Users, p \in ProjectIdsWide, u \in Users :
        last = Idle /\ remove_member(a, p, u) /\ InBoundsWide' /\ UNCHANGED inflight

WideCreateTask ==
    \E a \in Users, p \in ProjectIdsWide, u \in Users \cup {NoUser} :
        last = Idle /\ CreateTask(a, p, u, Absent, Absent) /\ InBoundsWide'
        /\ UNCHANGED inflight

WideUpdateTask ==
    \E a \in Users, t \in TaskIds, p \in ProjectIdsWide \cup {NoProject},
       u \in Users \cup {NoUser} :
        last = Idle /\ UpdateTask(a, t, p, u, Absent, Absent) /\ InBoundsWide'
        /\ UNCHANGED inflight

WideAssign ==
    \E a \in Users, t \in TaskIds, u \in UserIdInputs :
        last = Idle /\ assign(a, t, u) /\ InBoundsWide' /\ UNCHANGED inflight

WideAddComment ==
    \E a \in Users, t \in TaskIds :
        last = Idle /\ add_comment(a, t, "a") /\ InBoundsWide' /\ UNCHANGED inflight

NextProjects ==
    \/ Respond
    \/ WideAddComment
    \/ WideCreateProject
    \/ WideRemoveMember
    \/ WideCreateTask
    \/ WideUpdateTask
    \/ WideAssign

SpecProjects == Init /\ [][NextProjects]_vars

\* ---------------------------------------------------------------- SpecSteps
\* The views run under Django's autocommit: task.save() and each
\* Activity.objects.create() commit on their own, and requests interleave
\* between them. A request reads the row (get_object), validates, changes the
\* instance in memory, saves the whole row, then writes its log entries.
Free(k) == inflight[k] = NoRequest

Start(k, r) ==
    /\ last = Idle
    /\ Free(k)
    /\ \A j \in DOMAIN inflight : j < k => ~Free(j)
    /\ inflight' = [inflight EXCEPT ![k] = r]
    /\ UNCHANGED <<projects, tasks, activities, nextProjectId, nextTaskId, last,
                   comments, nextCommentId>>

\* change_status up to serializer.is_valid()
BeginChangeStatus(k, actor, tid, status) ==
    /\ TaskGate(actor, tid, FALSE) = "OK"
    /\ ValidStatusChoice(status)
    /\ status \in allowed_transition(tasks[tid].status)
    /\ Start(k, Request("change_status", actor, tid, "save",
                        [tasks[tid] EXCEPT !.status = status], tasks[tid],
                        <<Entry(tasks[tid].project, actor, "changed task status", tid,
                                NoUser, tasks[tid].status, status)>>))

\* assign up to serializer.is_valid()
BeginAssign(k, actor, tid, user_id) ==
    /\ TaskGate(actor, tid, FALSE) = "OK"
    /\ validate_user_id(tid, user_id)
    /\ Start(k, Request("assign", actor, tid, "save",
                        [tasks[tid] EXCEPT !.assigned_to = user_id], tasks[tid],
                        <<Entry(tasks[tid].project, actor, "assigned task", tid,
                                user_id, "", "")>>))

\* unassign up to task.assigned_to = None
BeginUnassign(k, actor, tid) ==
    /\ TaskGate(actor, tid, FALSE) = "OK"
    /\ Start(k, Request("unassign", actor, tid, "save",
                        [tasks[tid] EXCEPT !.assigned_to = NoUser], tasks[tid],
                        <<Entry(tasks[tid].project, actor, "unassigned task", tid,
                                tasks[tid].assigned_to, "", "")>>))

\* UpdateModelMixin.update up to serializer.is_valid(): the instance is read
\* and the body validated; perform_update has not run
BeginUpdateTask(k, actor, tid, project_id, assigned_to_id, status, priority) ==
    /\ TaskGate(actor, tid, TRUE) = "OK"
    /\ TaskFieldsValid(actor, project_id, assigned_to_id, status, priority)
    /\ validate(project_id, assigned_to_id) = "OK"
    /\ Start(k, Request("update_task", actor, tid, "old",
                        UpdatedTask(tasks[tid], project_id, assigned_to_id, status, priority),
                        NoTask, <<>>))

\* perform_update: old_instance = self.get_object(), a second read of the row
ReadOld(k) ==
    LET r == inflight[k]
    IN /\ r.pc = "old"
       /\ inflight' = [inflight EXCEPT ![k] =
             IF TaskGate(r.actor, r.id, TRUE) = "OK"
             THEN [r EXCEPT !.pc = "save", !.old = tasks[r.id]]
             ELSE NoRequest]
       /\ UNCHANGED <<projects, tasks, activities, nextProjectId, nextTaskId, last,
                      comments, nextCommentId>>

\* task.save() / serializer.save(): every column of the row is written from
\* the instance in memory
Save(k) ==
    LET r == inflight[k]
        pending == IF r.op = "update_task"
                   THEN log_task_changes(r.old, r.instance, r.id, r.actor)
                   ELSE r.pending
    IN /\ r.pc = "save"
       /\ r.id \in DOMAIN tasks
       /\ tasks' = [tasks EXCEPT ![r.id] = r.instance]
       /\ inflight' = [inflight EXCEPT ![k] =
             IF pending = <<>> THEN NoRequest
             ELSE [r EXCEPT !.pc = "log", !.pending = pending]]
       /\ UNCHANGED <<projects, activities, nextProjectId, nextTaskId, last,
                      comments, nextCommentId>>

\* one Activity.objects.create()
Log(k) ==
    LET r == inflight[k]
    IN /\ r.pc = "log"
       /\ activities' = Append(activities, Head(r.pending))
       /\ inflight' = [inflight EXCEPT ![k] =
             IF Tail(r.pending) = <<>> THEN NoRequest
             ELSE [r EXCEPT !.pending = Tail(r.pending)]]
       /\ UNCHANGED <<projects, tasks, nextProjectId, nextTaskId, last,
                      comments, nextCommentId>>

\* the request stops after a write (the worker dies, the insert fails): what
\* it has committed stays
Stop(k) ==
    /\ inflight[k].pc = "log"
    /\ inflight' = [inflight EXCEPT ![k] = NoRequest]
    /\ UNCHANGED <<projects, tasks, activities, nextProjectId, nextTaskId, last,
                   comments, nextCommentId>>

\* the requests that set the scene run start to response
StepCreateProject ==
    \E a \in Users, ids \in {{}, Users} :
        last = Idle /\ CreateProject(a, ids) /\ InBounds' /\ UNCHANGED inflight

StepCreateTask ==
    \E a \in Users, p \in ProjectIds, s \in {"IN_REVIEW", Absent} :
        last = Idle /\ CreateTask(a, p, NoUser, s, Absent) /\ InBounds'
        /\ last'.outcome = "OK"
        /\ UNCHANGED inflight

StepChangeStatus ==
    \E k \in Slots, a \in Users, t \in TaskIds, s \in StatusInputs :
        BeginChangeStatus(k, a, t, s)

StepAssign ==
    \E k \in Slots, a \in Users, t \in TaskIds, u \in Users : BeginAssign(k, a, t, u)

StepUnassign == \E k \in Slots, a \in Users, t \in TaskIds : BeginUnassign(k, a, t)

StepUpdateTask ==
    \E k \in Slots, a \in Users, t \in TaskIds, s \in {"DONE", Absent},
       pr \in PriorityInputs \cup {Absent} :
        BeginUpdateTask(k, a, t, NoProject, NoUser, s, pr)

StepReadOld == \E k \in Slots : ReadOld(k)

StepSave == \E k \in Slots : Save(k)

StepLog == \E k \in Slots : Log(k) /\ InBounds'

StepStop == \E k \in Slots : Stop(k)

NextSteps ==
    \/ Respond
    \/ StepCreateProject
    \/ StepCreateTask
    \/ StepChangeStatus
    \/ StepAssign
    \/ StepUnassign
    \/ StepUpdateTask
    \/ StepReadOld
    \/ StepSave
    \/ StepLog
    \/ StepStop

SpecSteps == Init /\ [][NextSteps]_vars

\* ----------------------------------------------------------------- SpecRace
\* change_status, assign and unassign requests on one task served at the
\* same time, each running to its response: get_object and validation, then
\* task.save(), then Activity.objects.create().
InitRace ==
    /\ projects = <<>>
    /\ tasks = <<>>
    /\ activities = <<>>
    /\ nextProjectId = 1
    /\ nextTaskId = 1
    /\ last = Idle
    /\ inflight = [k \in Racers |-> NoRequest]
    /\ comments = <<>>
    /\ nextCommentId = 1

InBoundsRace ==
    /\ Len(activities) <= MaxLogWide
    /\ nextProjectId <= MaxProjects + 1
    /\ nextTaskId <= MaxTasks + 1

RaceCreateProject ==
    \E a \in Users :
        last = Idle /\ CreateProject(a, Users) /\ InBoundsRace' /\ UNCHANGED inflight

\* a request starts while the log has room for the entry of every request
\* under way
RoomToLog == Len(activities) + Cardinality({j \in Racers : ~Free(j)}) < MaxLogWide

RaceCreateTask ==
    \E a \in Users, p \in ProjectIds, s \in {"IN_REVIEW", Absent} :
        last = Idle /\ CreateTask(a, p, NoUser, s, Absent) /\ InBoundsRace'
        /\ last'.outcome = "OK"
        /\ UNCHANGED inflight

RaceChangeStatus ==
    \E k \in Racers, a \in Users, t \in TaskIds, s \in StatusInputs :
        RoomToLog /\ BeginChangeStatus(k, a, t, s)

RaceAssign ==
    \E k \in Racers, a \in Users, t \in TaskIds, u \in Users :
        RoomToLog /\ BeginAssign(k, a, t, u)

RaceUnassign ==
    \E k \in Racers, a \in Users, t \in TaskIds : RoomToLog /\ BeginUnassign(k, a, t)

RaceSave == \E k \in Racers : Save(k)

RaceLog == \E k \in Racers : Log(k) /\ InBoundsRace'

NextRace ==
    \/ Respond
    \/ RaceCreateProject
    \/ RaceCreateTask
    \/ RaceChangeStatus
    \/ RaceAssign
    \/ RaceUnassign
    \/ RaceSave
    \/ RaceLog

SpecRace == InitRace /\ [][NextRace]_vars

\* =================================================================== claims
\* the transition table of the specification (section 4.3)
TransitionTable ==
    {<<"TODO", "IN_PROGRESS">>, <<"IN_PROGRESS", "IN_REVIEW">>, <<"IN_PROGRESS", "TODO">>,
     <<"IN_REVIEW", "DONE">>, <<"IN_REVIEW", "IN_PROGRESS">>, <<"DONE", "IN_PROGRESS">>}

SpecStatuses == {"TODO", "IN_PROGRESS", "IN_REVIEW", "DONE"}

StoreUnchanged ==
    UNCHANGED <<projects, tasks, activities, nextProjectId, nextTaskId, comments,
                nextCommentId>>

\* the entries a step appended to the log
Appended == SubSeq(activities', Len(activities) + 1, Len(activities'))

LogExtended ==
    /\ Len(activities') >= Len(activities)
    /\ SubSeq(activities', 1, Len(activities)) = activities

HasTaskRole(u, t) ==
    \/ u = tasks[t].created_by
    \/ u = tasks[t].assigned_to
    \/ u = projects[tasks[t].project].created_by

\* C1: a change_status request that reaches the handler succeeds, and stores
\* the requested status, exactly when (current, requested) is one of the six
\* edges of the transition table; on every other pair of the four statuses,
\* s = t included, it fails and the status stays.
C1_ChangeStatusIffEdge ==
    [][\A a \in Users, t \in TaskIds, s \in SpecStatuses :
         (change_status(a, t, s) /\ TaskGate(a, t, FALSE) = "OK")
         => IF <<tasks[t].status, s>> \in TransitionTable
            THEN last'.outcome = "OK" /\ tasks'[t].status = s
            ELSE last'.outcome # "OK" /\ tasks'[t].status = tasks[t].status]_vars

\* C2: whatever operation commits it, every change of a stored task status
\* from one of the four statuses to another follows an edge of the transition
\* table.
C2_EveryStatusChangeIsAnEdge ==
    [][\A t \in DOMAIN tasks \cap DOMAIN tasks' :
         (/\ tasks'[t].status # tasks[t].status
          /\ tasks[t].status \in SpecStatuses
          /\ tasks'[t].status \in SpecStatuses)
         => <<tasks[t].status, tasks'[t].status>> \in TransitionTable]_vars

C4_AssigneeIsMember ==
    \A t \in DOMAIN tasks :
        tasks[t].assigned_to # NoUser
        => tasks[t].assigned_to \in projects[tasks[t].project].team_members

\* C5: change_status, assign and unassign by a project member who is neither
\* the task's creator, nor its assignee, nor the project's creator are
\* rejected (the claim: as Forbidden) and leave the task and the log as they
\* were.
C5_TaskActionsNeedRole ==
    [][\A t \in DOMAIN tasks :
         (/\ last'.op \in {"change_status", "assign", "unassign"}
          /\ last'.id = t
          /\ last'.actor \in projects[tasks[t].project].team_members
          /\ ~HasTaskRole(last'.actor, t))
         => (last'.outcome # "OK" /\ tasks' = tasks /\ activities' = activities)]_vars

\* C6: update, delete, add_member and remove_member of a project by anyone but
\* its creator are rejected and leave the store as it was; a read of the
\* project by any of its team members succeeds.
C6_ProjectWritesByCreatorOnly ==
    [][\A p \in DOMAIN projects :
         /\ (/\ last'.op \in {"update_project", "destroy_project", "add_member",
                              "remove_member"}
             /\ last'.id = p
             /\ last'.actor # projects[p].created_by)
            => (last'.outcome \in {"Forbidden", "NotFound"} /\ StoreUnchanged)
         /\ (/\ last'.op = "retrieve_project"
             /\ last'.id = p
             /\ last'.actor \in projects[p].team_members)
            => last'.outcome = "OK"]_vars

\* a team member who is not the creator was refused a write to the project
C6_Witness ==
    /\ last.op \in {"update_project", "destroy_project", "add_member", "remove_member"}
    /\ last.outcome = "Forbidden"
    /\ last.id \in DOMAIN projects
    /\ last.actor \in projects[last.id].team_members
    /\ last.actor # projects[last.id].created_by

\* C7: remove_member naming the project's creator fails, as InvalidOperation
\* when the creator asks, changes no team and appends no Activity entry.
C7_CreatorIsNotRemoved ==
    [][\A a \in Users, p \in DOMAIN projects :
         remove_member(a, p, projects[p].created_by)
         => /\ last'.outcome # "OK"
            /\ a = projects[p].created_by => last'.outcome = "InvalidOperation"
            /\ projects' = projects
            /\ activities' = activities]_vars

\* the creator of a project with a second member asked to be removed
C7_Witness ==
    /\ last.op = "remove_member"
    /\ last.outcome = "InvalidOperation"
    /\ last.id \in DOMAIN projects
    /\ last.actor = projects[last.id].created_by
    /\ projects[last.id].team_members # {last.actor}

TrackedFields == {"status", "assigned_to", "priority"}

\* C8: a step that stores a new value of a task's status, assignee or priority
\* appends, in that same step, an Activity entry about the task: no state
\* holds the new value without its entry.
C8_MutationAndEntryTogether ==
    [][\A t \in DOMAIN tasks \cap DOMAIN tasks' :
         (\E f \in TrackedFields : tasks'[t][f] # tasks[t][f])
         => /\ LogExtended
            /\ \E i \in 1..Len(Appended) : Appended[i].task = t]_vars

\* C9: on a task in status TODO change_status(IN_REVIEW) fails and
\* change_status(IN_PROGRESS) succeeds; a successful change_status appends
\* exactly one entry, of action "changed task status", a failed one none.
C9_TodoExample ==
    [][\A a \in Users, t \in TaskIds, s \in SpecStatuses :
         (change_status(a, t, s) /\ TaskGate(a, t, FALSE) = "OK")
         => /\ (tasks[t].status = "TODO" /\ s = "IN_REVIEW") => last'.outcome # "OK"
            /\ (tasks[t].status = "TODO" /\ s = "IN_PROGRESS") => last'.outcome = "OK"
            /\ LogExtended
            /\ IF last'.outcome = "OK"
               THEN /\ Len(Appended) = 1
                    /\ Appended[1].action = "changed task status"
               ELSE Appended = <<>>]_vars

ChangedFields(old, new) == {f \in TrackedFields : old[f] # new[f]}

FieldActions(f) ==
    CASE f = "status" -> {"changed task status"}
      [] f = "assigned_to" -> {"assigned task", "unassigned task"}
      [] f = "priority" -> {"changed task priority"}

\* C10: a successful task update appends exactly one Activity entry for each
\* of status, assigned_to and priority whose stored value it changed, and
\* nothing else.
C10_UpdateLogsChangedFields ==
    [][\A t \in DOMAIN tasks :
         (last'.op = "update_task" /\ last'.id = t /\ last'.outcome = "OK")
         => /\ LogExtended
            /\ Len(Appended) = Cardinality(ChangedFields(tasks[t], tasks'[t]))
            /\ \A f \in TrackedFields :
                  Cardinality({i \in 1..Len(Appended) :
                                  /\ Appended[i].action \in FieldActions(f)
                                  /\ Appended[i].task = t
                                  /\ Appended[i].user = last'.actor})
                  = IF f \in ChangedFields(tasks[t], tasks'[t]) THEN 1 ELSE 0]_vars

\* an update that changed both the priority and the assignee of a task has
\* just written its two entries
C10_Witness ==
    /\ last.op = "update_task"
    /\ last.outcome = "OK"
    /\ Len(activities) >= 2
    /\ activities[Len(activities) - 1].action = "assigned task"
    /\ activities[Len(activities) - 1].task = last.id
    /\ activities[Len(activities)].action = "changed task priority"
    /\ activities[Len(activities)].task = last.id

\* C11: a successful DELETE of a task removes the task and appends exactly one
\* entry, "deleted task", about that task in the task's project; every entry
\* written before (those about the task included) is still in the log, so no
\* state holds the task gone and its deletion entry missing.
C11_TaskDeletionIsLogged ==
    [][\A a \in Users, t \in TaskIds :
         (DestroyTask(a, t) /\ TaskGate(a, t, TRUE) = "OK")
         => /\ t \notin DOMAIN tasks'
            /\ LogExtended
            /\ Len(Appended) = 1
            /\ Appended[1].action = "deleted task"
            /\ Appended[1].task = t
            /\ Appended[1].project = tasks[t].project]_vars

C11_Witness ==
    /\ last.op = "destroy_task"
    /\ last.outcome = "OK"
    /\ last.id \notin DOMAIN tasks
    /\ Len(activities) >= 3
    /\ activities[Len(activities)].action = "deleted task"
    /\ \E i \in 1..(Len(activities) - 1) :
          activities[i].task = last.id /\ activities[i].action = "changed task priority"

\* C12: the activity log is append-only: every step of every operation on
\* projects, tasks and comments keeps each existing entry, in place and
\* unchanged.
C12_LogIsAppendOnly == [][LogExtended]_vars

\* C13: a task that a create request has just stored has status TODO,
\* whatever status the request carried.
C13_CreatedTaskIsTodo ==
    [][\A a \in Users, p \in ProjectIds, u \in UserIdInputs \cup {NoUser},
         s \in SpecStatuses \cup {Absent} :
         (CreateTask(a, p, u, s, Absent) /\ last'.outcome = "OK")
         => tasks'[last'.id].status = "TODO"]_vars

\* the validation of change_status accepts status s for task t
Accepted(t, s) == ValidStatusChoice(s) /\ s \in allowed_transition(tasks[t].status)

\* C14: no status is terminal: in every reachable state every task has a
\* status that change_status accepts, and a task in DONE is accepted into
\* IN_PROGRESS.
C14_NoTerminalStatus ==
    \A t \in DOMAIN tasks :
        /\ \E s \in StatusInputs : Accepted(t, s)
        /\ tasks[t].status = "DONE" => Accepted(t, "IN_PROGRESS")

\* C15: an assign request on an existing task by a user outside the task's
\* project fails as Forbidden and leaves the task as it was; the same request
\* by the project's creator, naming a member, succeeds whatever the creator's
\* roles on the task.
C15_AssignByNonMemberForbidden ==
    [][\A a \in Users, t \in DOMAIN tasks, u \in Users :
         assign(a, t, u)
         => LET pr == projects[tasks[t].project]
            IN /\ a \notin pr.team_members
                  => last'.outcome = "Forbidden" /\ tasks' = tasks
               /\ (a = pr.created_by /\ u \in pr.team_members)
                  => last'.outcome = "OK" /\ tasks'[t].assigned_to = u]_vars

\* C16: an update or delete request on an existing task passes the permission
\* check (its outcome is neither NotFound nor Forbidden) exactly when the
\* actor is the task's creator, its assignee or the project's creator,
\* whether or not the actor is in the project's team.
C16_ModifyIffRole ==
    [][\A t \in DOMAIN tasks :
         (last = Idle /\ last'.op \in {"update_task", "destroy_task"} /\ last'.id = t)
         => (last'.outcome \notin {"NotFound", "Forbidden"} <=> HasTaskRole(last'.actor, t))]_vars

CommentTeam(c) == projects[tasks[comments[c].task].project].team_members

C18_FailureChangesNothing ==
    [][(last = Idle /\ last'.outcome # "OK") => StoreUnchanged]_vars

C18_Witness ==
    /\ last.op = "change_status"
    /\ last.outcome = "InvalidTransition"
    /\ comments # <<>>
    /\ Len(activities) >= 3

\* C19: every entry a request appends to the log carries, as its user, the
\* authenticated user who made the request.
C19_EntryUserIsActor ==
    [][(last = Idle /\ LogExtended)
       => \A i \in 1..Len(Appended) : Appended[i].user = last'.actor]_vars

MemberActions == {"added team member", "removed team member"}

\* C20: creating a project appends exactly one "created project" entry and no
\* "added team member" entry for its creator; "added team member" and
\* "removed team member" entries are appended by add_member and remove_member
\* requests only.
C20_MemberEntriesByMemberCallsOnly ==
    [][(last = Idle /\ LogExtended)
       => /\ last'.op = "create_project"
             => /\ Cardinality({i \in 1..Len(Appended) :
                                  Appended[i].action = "created project"}) = 1
                /\ \A i \in 1..Len(Appended) :
                      Appended[i].action = "added team member"
                      => Appended[i].who # last'.actor
          /\ \A i \in 1..Len(Appended) :
                Appended[i].action \in MemberActions
                => last'.op \in {"add_member", "remove_member"}]_vars

\* C21: add_member for a user who is already in the team succeeds, leaves
\* team_members as they were and appends no entry.
C21_AddMemberIdempotent ==
    [][\A a \in Users, p \in DOMAIN projects, u \in Users :
         (add_member(a, p, u) /\ last'.outcome = "OK" /\ u \in projects[p].team_members)
         => projects' = projects /\ activities' = activities]_vars

C21_Witness ==
    /\ last.op = "add_member"
    /\ last.outcome = "OK"
    /\ Len(activities) >= 4
    /\ activities[Len(activities)].action = "created task"
    /\ \E i \in 1..Len(activities) : activities[i].action = "added team member"

\* C22: in every reachable state each task refers to an existing project,
\* each comment to an existing task and each activity entry to an existing
\* project: a deleted project leaves none of its tasks, comments and entries,
\* a deleted task none of its comments.
C22_ReferencesValid ==
    /\ \A t \in DOMAIN tasks : tasks[t].project \in DOMAIN projects
    /\ \A c \in DOMAIN comments : comments[c].task \in DOMAIN tasks
    /\ \A i \in 1..Len(activities) : activities[i].project \in DOMAIN projects

C22_Witness ==
    /\ last.op = "destroy_project"
    /\ last.outcome = "OK"
    /\ nextTaskId > 1
    /\ nextCommentId > 1
    /\ tasks = <<>>
    /\ comments = <<>>

\* C23: a successful task create, task update or assign leaves a task with
\* an assignee only if the assignee is in the team of the project the task
\* is in after the request.
C23_CommittedAssigneeIsMember ==
    [][(last = Idle /\ last'.op \in {"create_task", "update_task", "assign"}
          /\ last'.outcome = "OK")
       => LET t == tasks'[last'.id]
          IN t.assigned_to # NoUser
             => t.assigned_to \in projects'[t.project].team_members]_vars

\* the entry that describes the event of a create or delete request
EventAction(op) ==
    CASE op = "create_project" -> "created project"
      [] op = "create_task" -> "created task"
      [] op \in {"add_comment", "create_comment"} -> "added comment"
      [] op = "destroy_project" -> "deleted project"
      [] op = "destroy_task" -> "deleted task"
      [] op = "destroy_comment" -> "deleted comment"
      [] OTHER -> Absent

\* C24: every successful creation and every successful deletion of a
\* project, a task or a comment appends an entry describing that event.
C24_CreateAndDeleteLogged ==
    [][(last = Idle /\ last'.outcome = "OK" /\ EventAction(last'.op) # Absent)
       => /\ LogExtended
          /\ \E i \in 1..Len(Appended) : Appended[i].action = EventAction(last'.op)]_vars

\* C25: an assign naming the user who already is the assignee, and an
\* unassign of a task that has no assignee, succeed without appending an
\* entry.
C25_NoEntryWithoutChange ==
    [][\A t \in DOMAIN tasks :
         (last = Idle /\ last'.op \in {"assign", "unassign"} /\ last'.id = t
            /\ last'.outcome = "OK" /\ tasks'[t].assigned_to = tasks[t].assigned_to)
         => activities' = activities]_vars

\* the part of the store inside the projects user u is a member of
VisibleProjects(u) == [p \in ProjectQueryset(projects, u) |-> projects[p]]

VisibleTasks(u) ==
    [t \in {x \in DOMAIN tasks : tasks[x].project \in DOMAIN VisibleProjects(u)} |-> tasks[t]]

VisibleComments(u) ==
    [c \in {x \in DOMAIN comments : comments[x].task \in DOMAIN VisibleTasks(u)}
       |-> comments[c]]

VisibleActivities(u) ==
    SelectSeq(activities, LAMBDA e : e.project \in DOMAIN VisibleProjects(u))

C27_RacingStatusWritesFollowTable ==
    [][\A k \in DOMAIN inflight :
         (Save(k) /\ inflight[k].op = "change_status")
         => LET r == inflight[k]
            IN /\ <<tasks[r.id].status, tasks'[r.id].status>> \in TransitionTable
               /\ Head(r.pending).old = tasks[r.id].status]_vars

StatusEntries(t) ==
    {i \in DOMAIN activities :
        activities[i].task = t /\ activities[i].action = "changed task status"}

AssignEntries(t) ==
    {i \in DOMAIN activities :
        activities[i].task = t /\ activities[i].action = "assigned task"}

UnassignEntries(t) ==
    {i \in DOMAIN activities :
        activities[i].task = t /\ activities[i].action = "unassigned task"}

\* C28: once one change_status and one assign on a task have both completed,
\* in whatever order their steps interleaved, the stored task has the status
\* the one wrote and the assignee the other wrote.
C28_BothFieldsKept ==
    \A t \in DOMAIN tasks :
        ( /\ \A k \in DOMAIN inflight : Free(k)
          /\ Cardinality(StatusEntries(t)) = 1
          /\ Cardinality(AssignEntries(t)) = 1
          /\ UnassignEntries(t) = {} )
        => \A i \in StatusEntries(t), j \in AssignEntries(t) :
               /\ tasks[t].status = activities[i].new
               /\ tasks[t].assigned_to = activities[j].who

\* C29: a successful project update that carries team_member_ids leaves the
\* team equal to the listed existing users plus the creator, and appends one
\* "added team member" entry for each user who became a member, one "removed
\* team member" entry for each user who stopped being one, and no other entry;
\* none of them names the creator as removed.
C29_UpdateLogsMembershipDifference ==
    [][\A a \in Users, p \in DOMAIN projects, ids \in SUBSET UserIdInputs :
         (UpdateProject(a, p, TRUE, ids) /\ last'.outcome = "OK")
         => LET before == projects[p].team_members
                after == projects'[p].team_members
                creator == projects[p].created_by
            IN /\ after = (ids \cap Users) \cup {creator}
               /\ LogExtended
               /\ Len(Appended) = Cardinality((after \ before) \cup (before \ after))
               /\ \A u \in after \ before :
                      \E i \in 1..Len(Appended) :
                          Appended[i].action = "added team member" /\ Appended[i].who = u
               /\ \A u \in before \ after :
                      \E i \in 1..Len(Appended) :
                          Appended[i].action = "removed team member" /\ Appended[i].who = u
               /\ \A i \in 1..Len(Appended) :
                      ~(Appended[i].action = "removed team member"
                        /\ Appended[i].who = creator)]_vars

\* C30: a task is put into a project only by a member of that project. When
\* the target project does not exist or the actor is not in its team, a task
\* creation is answered with a validation error, a task update naming that
\* project is refused (with a validation error once the request has passed the
\* view's object lookup and permission), and the store is unchanged.
C30_TaskPlacedOnlyByMember ==
    [][/\ \A a \in Users, p \in ProjectIdsWide :
            (p \notin DOMAIN projects \/ a \notin projects[p].team_members)
            => /\ \A u \in Users \cup {NoUser} :
                      CreateTask(a, p, u, Absent, Absent)
                      => last'.outcome = "ValidationError" /\ StoreUnchanged
               /\ \A t \in TaskIds, u \in Users \cup {NoUser} :
                      UpdateTask(a, t, p, u, Absent, Absent)
                      => /\ last'.outcome # "OK"
                         /\ StoreUnchanged
                         /\ TaskGate(a, t, TRUE) = "OK"
                            => last'.outcome = "ValidationError"
       /\ \A t \in DOMAIN tasks' :
            (t \notin DOMAIN tasks \/ tasks'[t].project # tasks[t].project)
            => last'.actor \in projects[tasks'[t].project].team_members]_vars

\* the creator of a task in a project whose team is everyone asked to move
\* it into a project they are not a member of, and was refused
C30_Witness ==
    \E t \in DOMAIN tasks, p \in DOMAIN projects :
        /\ last = Resp("update_task", tasks[t].created_by, t, "ValidationError")
        /\ projects[tasks[t].project].team_members = Users
        /\ tasks[t].created_by \notin projects[p].team_members

====
